---- MODULE Spec2Model ----
(***************************************************************************)
(* Model of budget_tracker.py: a terminal budget tracker that loads a      *)
(* budget and an ordered expense list from budget_data.json, runs a menu   *)
(* loop over them and writes them back on exit.                            *)
(*                                                                         *)
(* Text is a sequence of one-character strings.  The character SUP2 stands *)
(* for U+00B2 (superscript two): str.isnumeric() accepts it, int() does    *)
(* not.  Money values (budget, amounts) are counted in tenths: the number  *)
(* 55 stands for the float 5.5.  All amounts the model types in are        *)
(* integers or halves, on which the program's float arithmetic is exact.   *)
(* Inputs outside the modelled alphabet (whitespace and underscores in     *)
(* numbers, exponents, inf, nan, more than one fractional digit) are not   *)
(* drawn.                                                                  *)
(***************************************************************************)
EXTENDS Integers, Sequences, FiniteSets, TLC

\* ------------------------------------------------------------------ text

Quote == "\""
Backslash == "\\"
NL == "\n"
SUP2 == "U+00B2"

DigitChars == <<"0", "1", "2", "3", "4", "5", "6", "7", "8", "9">>

IsDecimal(c) == \E d \in 1..10 : DigitChars[d] = c

DigitVal(c) == (CHOOSE d \in 1..10 : DigitChars[d] = c) - 1

AllDecimal(s) == \A i \in 1..Len(s) : IsDecimal(s[i])

\* The value of a non-empty run of decimal digits.
RECURSIVE DigitsValue(_)
DigitsValue(s) ==
    IF Len(s) = 0 THEN 0
    ELSE 10 * DigitsValue(SubSeq(s, 1, Len(s) - 1)) + DigitVal(s[Len(s)])

\* str.isnumeric(): non-empty and every character has a numeric value.
isnumeric(s) == Len(s) > 0 /\ \A i \in 1..Len(s) : IsDecimal(s[i]) \/ s[i] = SUP2

StripSign(s) == IF Len(s) > 0 /\ s[1] \in {"-", "+"} THEN SubSeq(s, 2, Len(s)) ELSE s

SignOf(s) == IF Len(s) > 0 /\ s[1] = "-" THEN -1 ELSE 1

\* int(s): an optional sign and at least one decimal digit; anything else
\* raises ValueError (ok = FALSE).
int(s) ==
    LET body == StripSign(s)
    IN  IF Len(body) > 0 /\ AllDecimal(body)
        THEN [ok |-> TRUE, v |-> SignOf(s) * DigitsValue(body)]
        ELSE [ok |-> FALSE, v |-> 0]

DotAt(s) == IF \E i \in 1..Len(s) : s[i] = "." THEN CHOOSE i \in 1..Len(s) : s[i] = "." ELSE 0

\* float(s): an optional sign and digits with an optional "." among them,
\* at least one digit in all; the value is returned in tenths.  ok = FALSE
\* is the ValueError.  The model counts in tenths, so a line with more than
\* one digit after the "." is never drawn (it is refused here, where Python
\* would take it).
float(s) ==
    LET body == StripSign(s)
        dot  == DotAt(body)
        ip   == IF dot = 0 THEN body ELSE SubSeq(body, 1, dot - 1)
        fp   == IF dot = 0 THEN <<>> ELSE SubSeq(body, dot + 1, Len(body))
    IN  IF /\ Len(ip) + Len(fp) > 0
           /\ AllDecimal(ip)
           /\ AllDecimal(fp)
           /\ Len(fp) <= 1
        THEN [ok |-> TRUE,
              v  |-> SignOf(s) * (10 * DigitsValue(ip) + DigitsValue(fp))]
        ELSE [ok |-> FALSE, v |-> 0]

\* --------------------------------------------------------- json encoder

K_initial_budget == <<"i", "n", "i", "t", "i", "a", "l", "_", "b", "u", "d", "g", "e", "t">>
K_expenses == <<"e", "x", "p", "e", "n", "s", "e", "s">>
K_description == <<"d", "e", "s", "c", "r", "i", "p", "t", "i", "o", "n">>
K_amount == <<"a", "m", "o", "u", "n", "t">>

Spaces(n) == [i \in 1..n |-> " "]

RECURSIVE NatDigits(_)
NatDigits(n) ==
    IF n < 10 THEN <<DigitChars[n + 1]>>
    ELSE Append(NatDigits(n \div 10), DigitChars[(n % 10) + 1])

Abs(v) == IF v < 0 THEN -v ELSE v

\* float.__repr__ as json.dump writes a float: sign, integer part, ".",
\* fraction.
float_repr(v) ==
    (IF v < 0 THEN <<"-">> ELSE <<>>)
        \o NatDigits(Abs(v) \div 10) \o <<".">> \o <<DigitChars[(Abs(v) % 10) + 1]>>

\* EscapeChar with the backslash written as it is.
EscapeChar_plain_backslash(c) ==
    IF c = Quote THEN <<Backslash, Quote>>
    ELSE IF c = SUP2 THEN <<Backslash, "u", "0", "0", "b", "2">>
    ELSE <<c>>

\* One character of a string as json.dump (ensure_ascii) writes it.
EscapeChar(c) ==
    IF c = Quote THEN <<Backslash, Quote>>
    ELSE IF c = Backslash THEN <<Backslash, Backslash>>
    ELSE IF c = SUP2 THEN <<Backslash, "u", "0", "0", "b", "2">>
    ELSE <<c>>

RECURSIVE Escape(_)
Escape(s) == IF Len(s) = 0 THEN <<>> ELSE EscapeChar(Head(s)) \o Escape(Tail(s))

json_string(s) == <<Quote>> \o Escape(s) \o <<Quote>>

\* One expense object at nesting depth 2 of an indent=4 document.
json_expense(e) ==
    Spaces(8) \o <<"{", NL>>
        \o Spaces(12) \o json_string(K_description) \o <<":", " ">>
        \o json_string(e.description) \o <<",", NL>>
        \o Spaces(12) \o json_string(K_amount) \o <<":", " ">>
        \o float_repr(e.amount) \o <<NL>>
        \o Spaces(8) \o <<"}">>

RECURSIVE json_expense_list(_)
json_expense_list(es) ==
    IF Len(es) = 0 THEN <<>>
    ELSE IF Len(es) = 1 THEN json_expense(es[1])
    ELSE json_expense(es[1]) \o <<",", NL>> \o json_expense_list(Tail(es))

\* json.dump({'initial_budget': b, 'expenses': es}, file, indent=4)
json_dump(b, es) ==
    <<"{", NL>>
        \o Spaces(4) \o json_string(K_initial_budget) \o <<":", " ">>
        \o float_repr(b) \o <<",", NL>>
        \o Spaces(4) \o json_string(K_expenses) \o <<":", " ">>
        \o (IF Len(es) = 0 THEN <<"[", "]">>
            ELSE <<"[", NL>> \o json_expense_list(es) \o <<NL>> \o Spaces(4) \o <<"]">>)
        \o <<NL, "}">>

\* ---------------------------------------------------------- json decoder

Fail == [ok |-> FALSE]

RECURSIVE SkipWs(_, _)
SkipWs(t, i) == IF i <= Len(t) /\ t[i] \in {" ", NL} THEN SkipWs(t, i + 1) ELSE i

\* The body of a string literal from position i (after the opening quote).
\* Of the escapes, those the encoder writes for the modelled characters are
\* read: \", \\ and \u00b2.
RECURSIVE ScanString(_, _, _)
ScanString(t, i, acc) ==
    IF i > Len(t) THEN Fail
    ELSE IF t[i] = Quote THEN [ok |-> TRUE, s |-> acc, next |-> i + 1]
    ELSE IF t[i] = NL THEN Fail
    ELSE IF t[i] = Backslash THEN
        IF i + 1 > Len(t) THEN Fail
        ELSE IF t[i + 1] \in {Quote, Backslash}
             THEN ScanString(t, i + 2, Append(acc, t[i + 1]))
        ELSE IF /\ t[i + 1] = "u"
                /\ i + 5 <= Len(t)
                /\ SubSeq(t, i + 2, i + 5) = <<"0", "0", "b", "2">>
             THEN ScanString(t, i + 6, Append(acc, SUP2))
        ELSE Fail
    ELSE ScanString(t, i + 1, Append(acc, t[i]))

\* The end (exclusive) of the run of decimal digits starting at i.
RECURSIVE DigitsEnd(_, _)
DigitsEnd(t, i) == IF i <= Len(t) /\ IsDecimal(t[i]) THEN DigitsEnd(t, i + 1) ELSE i

\* A number: -? (0 | digits) (. digit)?; the value is in tenths.  Exponents
\* and longer fractions are in no file of the model.
ScanNumber(t, i) ==
    LET neg == t[i] = "-"
        a   == IF neg THEN i + 1 ELSE i
        b   == IF a <= Len(t) /\ t[a] = "0" THEN a + 1 ELSE DigitsEnd(t, a)
        hasFrac == b <= Len(t) /\ t[b] = "."
        c   == IF hasFrac THEN DigitsEnd(t, b + 1) ELSE b
        ip  == DigitsValue(SubSeq(t, a, b - 1))
        fp  == IF hasFrac THEN DigitsValue(SubSeq(t, b + 1, c - 1)) ELSE 0
    IN  IF b = a \/ (hasFrac /\ c # b + 2) THEN Fail
        ELSE [ok |-> TRUE,
              v |-> [k |-> "num", n |-> (IF neg THEN -1 ELSE 1) * (10 * ip + fp)],
              next |-> c]

\* One JSON value from position i0: a string, a number, an array or an
\* object (true, false and null are in no file of the model).
RECURSIVE ParseValue(_, _)
RECURSIVE ParseItems(_, _, _)
RECURSIVE ParseMembers(_, _, _)

ParseValue(t, i0) ==
    LET i == SkipWs(t, i0)
    IN  IF i > Len(t) THEN Fail
        ELSE IF t[i] = Quote THEN
            LET r == ScanString(t, i + 1, <<>>)
            IN  IF r.ok THEN [ok |-> TRUE, v |-> [k |-> "str", s |-> r.s], next |-> r.next]
                ELSE Fail
        ELSE IF t[i] = "-" \/ IsDecimal(t[i]) THEN ScanNumber(t, i)
        ELSE IF t[i] = "[" THEN
            LET j == SkipWs(t, i + 1)
            IN  IF j <= Len(t) /\ t[j] = "]"
                THEN [ok |-> TRUE, v |-> [k |-> "arr", items |-> <<>>], next |-> j + 1]
                ELSE ParseItems(t, i + 1, <<>>)
        ELSE IF t[i] = "{" THEN
            LET j == SkipWs(t, i + 1)
            IN  IF j <= Len(t) /\ t[j] = "}"
                THEN [ok |-> TRUE, v |-> [k |-> "obj", members |-> <<>>], next |-> j + 1]
                ELSE ParseMembers(t, i + 1, <<>>)
        ELSE Fail

ParseItems(t, i, acc) ==
    LET r == ParseValue(t, i)
    IN  IF ~r.ok THEN Fail
        ELSE LET j == SkipWs(t, r.next)
             IN  IF j > Len(t) THEN Fail
                 ELSE IF t[j] = "," THEN ParseItems(t, j + 1, Append(acc, r.v))
                 ELSE IF t[j] = "]"
                      THEN [ok |-> TRUE,
                            v |-> [k |-> "arr", items |-> Append(acc, r.v)],
                            next |-> j + 1]
                 ELSE Fail

ParseMembers(t, i, acc) ==
    LET j == SkipWs(t, i)
    IN  IF j > Len(t) \/ t[j] # Quote THEN Fail
        ELSE LET key == ScanString(t, j + 1, <<>>)
             IN  IF ~key.ok THEN Fail
                 ELSE LET c == SkipWs(t, key.next)
                      IN  IF c > Len(t) \/ t[c] # ":" THEN Fail
                          ELSE LET r == ParseValue(t, c + 1)
                               IN  IF ~r.ok THEN Fail
                                   ELSE LET d  == SkipWs(t, r.next)
                                            ms == Append(acc, [key |-> key.s, val |-> r.v])
                                        IN  IF d > Len(t) THEN Fail
                                            ELSE IF t[d] = "," THEN ParseMembers(t, d + 1, ms)
                                            ELSE IF t[d] = "}"
                                                 THEN [ok |-> TRUE,
                                                       v |-> [k |-> "obj", members |-> ms],
                                                       next |-> d + 1]
                                            ELSE Fail

\* json.load: one value and nothing but whitespace after it; anything else
\* raises JSONDecodeError (ok = FALSE).
json_load(t) ==
    LET r == ParseValue(t, 1)
    IN  IF r.ok /\ SkipWs(t, r.next) > Len(t) THEN r ELSE Fail

HasKey(obj, key) == \E i \in 1..Len(obj.members) : obj.members[i].key = key

\* dict lookup: of duplicate keys the last one wins.
GetKey(obj, key) ==
    LET i == CHOOSE i \in 1..Len(obj.members) :
                 /\ obj.members[i].key = key
                 /\ \A j \in (i + 1)..Len(obj.members) : obj.members[j].key # key
    IN  obj.members[i].val

\* ----------------------------------------------------------- the store

VARIABLES
    file,         \* budget_data.json: [exists, text]
    writes,       \* how many times the session has written the file
    budget,       \* main's initial_budget, in tenths
    expenses,     \* main's expenses: a sequence of [description, amount]
    pc,           \* the input() call the session is blocked in, or its end
    description,  \* add_expense's description, once entered
    amount,       \* add_expense's amount, once entered
    choice,       \* edit_budget_details' choice, once selected (0-indexed)
    line,         \* the line the most recent input() call returned
    out,          \* what the most recent step reported on the terminal
    raised        \* the exception that ended the session, if one did

vars == <<file, writes, budget, expenses, pc, description, amount, choice, line, out, raised>>

\* The most expenses a list holds in the model.
MaxExpenses == 2

RED == 31
GREEN == 32

RECURSIVE get_total_expenses(_)
get_total_expenses(es) ==
    IF Len(es) = 0 THEN 0 ELSE es[1].amount + get_total_expenses(Tail(es))

\* get_balance with the subtraction the other way round.
get_balance_reversed(b, es) == get_total_expenses(es) - b

get_balance(b, es) == b - get_total_expenses(es)

\* pop that drops the last element whatever the index (list.pop()).
pop_last(es, i) == SubSeq(es, 1, Len(es) - 1)

\* list.pop(i) for a 0-indexed i in range: the list without that element.
pop(es, i) == SubSeq(es, 1, i) \o SubSeq(es, i + 2, Len(es))

Expense(d, a) == [description |-> d, amount |-> a]

\* ------------------------------------------------------------ persistence

NoFile == [exists |-> FALSE, text |-> <<>>]

TextFile(t) == [exists |-> TRUE, text |-> t]

\* save_budget_data: the file's new content.
save_budget_data(b, es) == TextFile(json_dump(b, es))

LoadedExpense(obj) ==
    Expense(GetKey(obj, K_description).s, GetKey(obj, K_amount).n)

\* load_budget_data: the pair it returns, or the exception it lets through.
load_budget_data(f) ==
    LET r == json_load(f.text)
        Default == [raised |-> "none", budget |-> 0, expenses |-> <<>>]
    IN  IF ~f.exists THEN Default
        ELSE IF ~r.ok THEN Default
        ELSE IF r.v.k # "obj"
             THEN [raised |-> "TypeError", budget |-> 0, expenses |-> <<>>]
        ELSE IF ~HasKey(r.v, K_initial_budget) \/ ~HasKey(r.v, K_expenses)
             THEN [raised |-> "KeyError", budget |-> 0, expenses |-> <<>>]
        ELSE [raised |-> "none",
              budget |-> GetKey(r.v, K_initial_budget).n,
              expenses |-> [i \in 1..Len(GetKey(r.v, K_expenses).items) |->
                               LoadedExpense(GetKey(r.v, K_expenses).items[i])]]

\* ----------------------------------------------------------------- input

L_1 == <<"1">>
L_2 == <<"2">>
L_y == <<"y">>
L_n == <<"n">>

\* What the user may type at each prompt.
MenuLines == {<<"0">>, L_1, L_2, <<"3">>, <<"4">>, <<"5">>, <<"6">>, <<"7">>,
              <<>>, <<"x">>, <<SUP2>>}

YesNoLines == {L_y, L_n, <<>>, <<"Y">>}

L_rich == <<"A", Quote, Backslash, SUP2>>

DescLines == {<<>>, L_rich}

AmountLines == {<<"-", "5", "0">>, <<"0">>, <<"4", "0">>, <<"7", "0">>,
                <<>>, <<"x">>, <<SUP2>>}

BudgetLines == {<<"1", "0", "0">>, <<"0", ".", "0">>, <<"x">>}

IndexLines == {<<"0">>, <<"1">>, <<"2">>, <<"5">>, <<"-", "1">>, <<"1", ".", "0">>, <<"x">>}

ModeLines == {<<"0">>, L_1, L_2, <<"3">>, <<>>, <<SUP2>>}

\* budget_data.json as the session may find it.
EmptyObjectFile == TextFile(<<"{", "}">>)

ListFile == TextFile(<<"[", "]">>)

NoExpensesFile ==
    TextFile(<<"{">> \o json_string(K_initial_budget) \o <<":", " ", "5", "}">>)

GarbageFile == TextFile(<<"{", "x">>)

\* Written by hand: compact, integers, keys in another order.
HandFile ==
    TextFile(<<"{">> \o json_string(K_expenses) \o <<":", "[", "{">>
             \o json_string(K_amount) \o <<":", "7", "0", ",">>
             \o json_string(K_description) \o <<":">> \o json_string(L_rich)
             \o <<"}", "]", ",">> \o json_string(K_initial_budget)
             \o <<":", "1", "0", "0", "}">>)

\* Saved by an earlier session with budget 0.
ZeroBudgetFile == save_budget_data(0, <<Expense(<<>>, 400)>>)

StartFiles == {NoFile, GarbageFile, EmptyObjectFile, ListFile, NoExpensesFile,
               HandFile, ZeroBudgetFile}

\* ---------------------------------------------------------------- prompts

\* ask_for_number that takes a line that is not a number for 0.
ask_for_number_defaults_zero(l, type) ==
    LET r == IF type = "float" THEN float(l) ELSE int(l)
    IN  IF r.ok THEN r ELSE [ok |-> TRUE, v |-> 0]

\* ask_for_number: one pass of its loop on the line read.  ok = FALSE is the
\* ValueError branch, which prints the message and reads again.
ask_for_number(l, type) == IF type = "float" THEN float(l) ELSE int(l)

\* yes_or_no that takes every answer but "n" for a yes.
yes_or_no_lenient(l) == IF l = L_n THEN "False" ELSE "True"

\* yes_or_no: one pass of its loop on the line read.
yes_or_no(l) == IF l = L_y THEN "True" ELSE IF l = L_n THEN "False" ELSE "again"

\* select_expense that takes the typed number as 1-indexed.
select_expense_one_based(es, l) ==
    LET r == int(l)
    IN  IF r.ok /\ r.v \in 1..Len(es)
        THEN [ok |-> TRUE, v |-> r.v - 1, msg |-> "none"]
        ELSE [ok |-> FALSE, v |-> 0,
              msg |-> IF r.ok THEN "not_an_item" ELSE "not_a_number"]

\* select_expense: one pass of its loop; ok = FALSE reads again.
select_expense(es, l) ==
    LET r == ask_for_number(l, "int")
    IN  IF r.ok /\ r.v \in 0..(Len(es) - 1)
        THEN [ok |-> TRUE, v |-> r.v, msg |-> "none"]
        ELSE [ok |-> FALSE, v |-> 0,
              msg |-> IF r.ok THEN "not_an_item" ELSE "not_a_number"]

NoText == <<>>
NoChoice == -1
Silent == [msg |-> "none"]

Init ==
    /\ file \in StartFiles
    /\ writes = 0
    /\ budget = 0
    /\ expenses = <<>>
    /\ pc = "start"
    /\ description = NoText
    /\ amount = 0
    /\ choice = NoChoice
    /\ line = <<>>
    /\ out = Silent
    /\ raised = "none"

\* An exception nothing catches: the session ends with a traceback.
Raise(err) ==
    /\ pc' = "crashed"
    /\ raised' = err
    /\ out' = Silent
    /\ UNCHANGED <<file, writes, budget, expenses, description, amount, choice>>

\* ReturnToMenu that also saves the file on every return.
ReturnToMenu_autosave(report) ==
    /\ pc' = "menu"
    /\ out' = report
    /\ description' = <<>>
    /\ amount' = 0
    /\ choice' = -1
    /\ file' = [exists |-> TRUE, text |-> json_dump(budget, expenses)]
    /\ writes' = writes + 1
    /\ UNCHANGED raised

\* The handler returns to main's loop, which prints the menu and reads.
ReturnToMenu(report) ==
    /\ pc' = "menu"
    /\ out' = report
    /\ description' = NoText
    /\ amount' = 0
    /\ choice' = NoChoice
    /\ UNCHANGED <<file, writes, raised>>

\* The same prompt is shown again after an error message.
Reprompt(msg) ==
    /\ out' = [msg |-> msg]
    /\ UNCHANGED <<file, writes, budget, expenses, pc, description, amount, choice, raised>>

\* main that starts afresh, without the loaded expenses, when the loaded
\* budget is 0.
Load_resets_on_zero ==
    /\ pc = "start"
    /\ LET r == load_budget_data(file)
       IN  IF r.raised # "none"
           THEN Raise(r.raised) /\ UNCHANGED line
           ELSE /\ budget' = r.budget
                /\ expenses' = IF r.budget = 0 THEN <<>> ELSE r.expenses
                /\ pc' = IF r.budget = 0 THEN "ask_budget" ELSE "menu"
                /\ out' = [msg |-> "welcome"]
                /\ UNCHANGED <<file, writes, description, amount, choice, line, raised>>

\* main, up to the first prompt.
Load ==
    /\ pc = "start"
    /\ LET r == load_budget_data(file)
       IN  IF r.raised # "none"
           THEN Raise(r.raised) /\ UNCHANGED line
           ELSE /\ budget' = r.budget
                /\ expenses' = r.expenses
                /\ pc' = IF r.budget = 0 THEN "ask_budget" ELSE "menu"
                /\ out' = [msg |-> "welcome"]
                /\ UNCHANGED <<file, writes, description, amount, choice, line, raised>>

\* main: "Please enter your initial budget: "
AskInitialBudget ==
    /\ pc = "ask_budget"
    /\ \E l \in BudgetLines :
        /\ line' = l
        /\ LET r == ask_for_number(l, "float")
           IN  IF r.ok
               THEN /\ budget' = r.v
                    /\ pc' = "menu"
                    /\ out' = Silent
                    /\ UNCHANGED <<file, writes, expenses, description, amount, choice, raised>>
               ELSE Reprompt("not_a_number")

\* add_expense that asks for the description whatever the balance.
add_expense_enter_unasked ==
    /\ pc' = "add_description"
    /\ out' = [msg |-> "none"]
    /\ UNCHANGED <<file, writes, budget, expenses, description, amount, choice, raised>>

\* add_expense, up to its first prompt.
add_expense_enter ==
    /\ pc' = IF get_balance(budget, expenses) < 0 THEN "add_confirm_over" ELSE "add_description"
    /\ out' = Silent
    /\ UNCHANGED <<file, writes, budget, expenses, description, amount, choice, raised>>

\* show_budget_details that colours a balance of exactly 0 red.
show_budget_details_red_at_zero ==
    /\ pc' = "menu"
    /\ out' = [msg |-> "details",
               budget |-> budget,
               lines |-> expenses,
               total |-> get_total_expenses(expenses),
               balance |-> get_balance(budget, expenses),
               colour |-> IF get_balance(budget, expenses) <= 0 THEN RED ELSE GREEN]
    /\ description' = <<>>
    /\ amount' = 0
    /\ choice' = -1
    /\ UNCHANGED <<file, writes, raised, budget, expenses>>

\* show_budget_details: the box it prints.
show_budget_details ==
    /\ ReturnToMenu([msg |-> "details",
                     budget |-> budget,
                     lines |-> expenses,
                     total |-> get_total_expenses(expenses),
                     balance |-> get_balance(budget, expenses),
                     colour |-> IF get_balance(budget, expenses) < 0 THEN RED ELSE GREEN])
    /\ UNCHANGED <<budget, expenses>>

\* delete_budget_details, up to its first prompt.
delete_enter ==
    IF Len(expenses) = 0
    THEN ReturnToMenu([msg |-> "no_expenses"]) /\ UNCHANGED <<budget, expenses>>
    ELSE /\ pc' = "delete_select"
         /\ out' = Silent
         /\ UNCHANGED <<file, writes, budget, expenses, description, amount, choice, raised>>

\* edit_budget_details that goes to the selection prompt without looking at
\* the list.
edit_enter_unchecked ==
    /\ pc' = "edit_select"
    /\ out' = Silent
    /\ UNCHANGED <<file, writes, budget, expenses, description, amount, choice, raised>>

\* edit_budget_details, up to its first prompt.
edit_enter ==
    IF Len(expenses) = 0
    THEN ReturnToMenu([msg |-> "no_expenses"]) /\ UNCHANGED <<budget, expenses>>
    ELSE /\ pc' = "edit_select"
         /\ out' = Silent
         /\ UNCHANGED <<file, writes, budget, expenses, description, amount, choice, raised>>

\* main, choice "5", up to the prompt.
edit_budget_enter ==
    /\ pc' = "edit_budget"
    /\ out' = [msg |-> "current_budget", budget |-> budget]
    /\ UNCHANGED <<file, writes, budget, expenses, description, amount, choice, raised>>

\* main, choice "6".
exit_and_save ==
    /\ file' = save_budget_data(budget, expenses)
    /\ writes' = writes + 1
    /\ pc' = "exited"
    /\ out' = [msg |-> "goodbye"]
    /\ UNCHANGED <<budget, expenses, description, amount, choice, raised>>

\* main's loop: "Enter the # your choice: " and the dispatch.
MainMenu ==
    /\ pc = "menu"
    /\ \E l \in MenuLines :
        /\ line' = l
        /\ l = L_1 => Len(expenses) < MaxExpenses
        /\ IF isnumeric(l) /\ ~int(l).ok THEN Raise("ValueError")
           ELSE IF l = L_1 THEN add_expense_enter
           ELSE IF l = L_2 THEN show_budget_details
           ELSE IF l = <<"3">> THEN delete_enter
           ELSE IF l = <<"4">> THEN edit_enter
           ELSE IF l = <<"5">> THEN edit_budget_enter
           ELSE IF l = <<"6">> THEN exit_and_save
           ELSE ReturnToMenu([msg |-> "invalid_choice"]) /\ UNCHANGED <<budget, expenses>>

\* append_expense that inserts at the front of the list.
append_expense_front(d, a) ==
    /\ expenses' = <<[description |-> d, amount |-> a]>> \o expenses
    /\ pc' = "menu"
    /\ out' = [msg |-> "added", description |-> d, amount |-> a]
    /\ description' = <<>>
    /\ amount' = 0
    /\ choice' = -1
    /\ UNCHANGED <<file, writes, raised, budget>>

\* list.append of the entered expense, and the report of it.
append_expense(d, a) ==
    /\ expenses' = Append(expenses, Expense(d, a))
    /\ ReturnToMenu([msg |-> "added", description |-> d, amount |-> a])
    /\ UNCHANGED budget

\* add_expense: "You are already over the budget. Continue?"
AddConfirmOver ==
    /\ pc = "add_confirm_over"
    /\ \E l \in YesNoLines :
        /\ line' = l
        /\ LET r == yes_or_no(l)
           IN  IF r = "True"
               THEN /\ pc' = "add_description"
                    /\ out' = Silent
                    /\ UNCHANGED <<file, writes, budget, expenses, description, amount, choice, raised>>
               ELSE IF r = "False"
               THEN ReturnToMenu(Silent) /\ UNCHANGED <<budget, expenses>>
               ELSE Reprompt("not_an_option")

\* add_expense: "Enter expense description: "
AddDescription ==
    /\ pc = "add_description"
    /\ \E l \in DescLines :
        /\ line' = l
        /\ description' = l
        /\ pc' = "add_amount"
        /\ out' = Silent
        /\ UNCHANGED <<file, writes, budget, expenses, amount, choice, raised>>

\* AddAmount without the check of the balance.
AddAmount_ungated ==
    /\ pc = "add_amount"
    /\ \E l \in AmountLines :
        /\ line' = l
        /\ LET r == float(l)
           IN  IF ~r.ok
               THEN /\ out' = [msg |-> "not_a_number"]
                    /\ UNCHANGED <<file, writes, budget, expenses, pc, description,
                                   amount, choice, raised>>
               ELSE /\ expenses' = Append(expenses, [description |-> description, amount |-> r.v])
                    /\ pc' = "menu"
                    /\ out' = [msg |-> "added", description |-> description, amount |-> r.v]
                    /\ description' = <<>>
                    /\ amount' = 0
                    /\ choice' = -1
                    /\ UNCHANGED <<file, writes, raised, budget>>

\* add_expense that skips the second confirmation when the first one was
\* already given.
AddAmount_gate_once ==
    /\ pc = "add_amount"
    /\ \E l \in AmountLines :
        /\ line' = l
        /\ LET r == ask_for_number(l, "float")
           IN  IF ~r.ok THEN Reprompt("not_a_number")
               ELSE IF /\ get_balance(budget, expenses) >= 0
                       /\ get_balance(budget, expenses) - r.v < 0
               THEN /\ amount' = r.v
                    /\ pc' = "add_confirm_exceed"
                    /\ out' = Silent
                    /\ UNCHANGED <<file, writes, budget, expenses, description, choice, raised>>
               ELSE append_expense(description, r.v)

\* add_expense: "Enter expense amount (You have ... balance left): "
AddAmount ==
    /\ pc = "add_amount"
    /\ \E l \in AmountLines :
        /\ line' = l
        /\ LET r == ask_for_number(l, "float")
           IN  IF ~r.ok THEN Reprompt("not_a_number")
               ELSE IF get_balance(budget, expenses) - r.v < 0
               THEN /\ amount' = r.v
                    /\ pc' = "add_confirm_exceed"
                    /\ out' = Silent
                    /\ UNCHANGED <<file, writes, budget, expenses, description, choice, raised>>
               ELSE append_expense(description, r.v)

\* add_expense: "Adding this will put you over the budget. Continue?"
AddConfirmExceed ==
    /\ pc = "add_confirm_exceed"
    /\ \E l \in YesNoLines :
        /\ line' = l
        /\ LET r == yes_or_no(l)
           IN  IF r = "True" THEN append_expense(description, amount)
               ELSE IF r = "False"
               THEN ReturnToMenu(Silent) /\ UNCHANGED <<budget, expenses>>
               ELSE Reprompt("not_an_option")

\* delete_budget_details: "Enter the # of the item you want to delete: "
DeleteSelect ==
    /\ pc = "delete_select"
    /\ \E l \in IndexLines :
        /\ line' = l
        /\ LET r == select_expense(expenses, l)
           IN  IF ~r.ok THEN Reprompt(r.msg)
               ELSE /\ expenses' = pop(expenses, r.v)
                    /\ ReturnToMenu([msg |-> "deleted",
                                     description |-> expenses[r.v + 1].description,
                                     amount |-> expenses[r.v + 1].amount])
                    /\ UNCHANGED budget

\* edit_budget_details: "Enter the # of the item you want to edit: "
EditSelect ==
    /\ pc = "edit_select"
    /\ \E l \in IndexLines :
        /\ line' = l
        /\ LET r == select_expense(expenses, l)
           IN  IF ~r.ok THEN Reprompt(r.msg)
               ELSE /\ choice' = r.v
                    /\ pc' = "edit_mode"
                    /\ out' = Silent
                    /\ UNCHANGED <<file, writes, budget, expenses, description, amount, raised>>

\* edit_budget_details: "What do you want to edit? "
EditMode ==
    /\ pc = "edit_mode"
    /\ \E l \in ModeLines :
        /\ line' = l
        /\ IF isnumeric(l) /\ ~int(l).ok THEN Raise("ValueError")
           ELSE IF l \in {L_1, L_2}
           THEN /\ pc' = IF l = L_1 THEN "edit_description" ELSE "edit_amount"
                /\ out' = Silent
                /\ UNCHANGED <<file, writes, budget, expenses, description, amount, choice, raised>>
           ELSE Reprompt("not_an_option")

\* edit_budget_details: the new description.
EditDescription ==
    /\ pc = "edit_description"
    /\ \E l \in DescLines :
        /\ line' = l
        /\ expenses' = [expenses EXCEPT ![choice + 1].description = l]
        /\ ReturnToMenu(Silent)
        /\ UNCHANGED budget

\* EditAmount that replaces the whole record by one with the new amount.
EditAmount_replaces_record ==
    /\ pc = "edit_amount"
    /\ \E l \in AmountLines :
        /\ line' = l
        /\ LET r == float(l)
           IN  IF ~r.ok
               THEN /\ out' = [msg |-> "not_a_number"]
                    /\ UNCHANGED <<file, writes, budget, expenses, pc, description,
                                   amount, choice, raised>>
               ELSE /\ expenses' = [expenses EXCEPT
                                       ![choice + 1] = [description |-> <<>>, amount |-> r.v]]
                    /\ pc' = "menu"
                    /\ out' = [msg |-> "none"]
                    /\ description' = <<>>
                    /\ amount' = 0
                    /\ choice' = -1
                    /\ UNCHANGED <<file, writes, raised, budget>>

\* edit_budget_details: the new amount.
EditAmount ==
    /\ pc = "edit_amount"
    /\ \E l \in AmountLines :
        /\ line' = l
        /\ LET r == ask_for_number(l, "float")
           IN  IF ~r.ok THEN Reprompt("not_a_number")
               ELSE /\ expenses' = [expenses EXCEPT ![choice + 1].amount = r.v]
                    /\ ReturnToMenu(Silent)
                    /\ UNCHANGED budget

\* EditBudget that refuses a budget below the total already spent.
EditBudget_checked ==
    /\ pc = "edit_budget"
    /\ \E l \in BudgetLines :
        /\ line' = l
        /\ LET r == float(l)
           IN  IF ~r.ok \/ r.v < get_total_expenses(expenses)
               THEN /\ out' = [msg |-> "not_a_number"]
                    /\ UNCHANGED <<file, writes, budget, expenses, pc, description,
                                   amount, choice, raised>>
               ELSE /\ budget' = r.v
                    /\ pc' = "menu"
                    /\ out' = [msg |-> "none"]
                    /\ description' = <<>>
                    /\ amount' = 0
                    /\ choice' = -1
                    /\ UNCHANGED <<file, writes, raised, expenses>>

\* main, choice "5": "Enter your new budget: "
EditBudget ==
    /\ pc = "edit_budget"
    /\ \E l \in BudgetLines :
        /\ line' = l
        /\ LET r == ask_for_number(l, "float")
           IN  IF ~r.ok THEN Reprompt("not_a_number")
               ELSE /\ budget' = r.v
                    /\ ReturnToMenu(Silent)
                    /\ UNCHANGED expenses

Next ==
    \/ Load
    \/ AskInitialBudget
    \/ MainMenu
    \/ AddConfirmOver
    \/ AddDescription
    \/ AddAmount
    \/ AddConfirmExceed
    \/ DeleteSelect
    \/ EditSelect
    \/ EditMode
    \/ EditDescription
    \/ EditAmount
    \/ EditBudget

Spec == Init /\ [][Next]_vars

\* ---------------------------------------------------------------- claims

\* C1: no condition is fatal: the session never ends in a crash, whatever the
\* user types and whatever the file holds; it ends only by main-menu choice
\* "6".  (Refuted: a file that parses but lacks a field, and a line such as
\* U+00B2 at the menu or at the edit-mode prompt, end it with a traceback.)
C1_NoConditionIsFatal ==
    /\ pc # "crashed"
    /\ raised = "none"
    /\ pc = "exited" => line = <<"6">>

\* C2: round trip: what save_budget_data wrote on exit, load_budget_data
\* reads back as exactly the budget and the expenses held in memory, in the
\* same order with the same description and amount each.
C2_RoundTrip ==
    pc = "exited" =>
        load_budget_data(file) =
            [raised |-> "none", budget |-> budget, expenses |-> expenses]

C2_Witness ==
    /\ pc = "exited"
    /\ Len(expenses) = 2
    /\ expenses[1].description = L_rich
    /\ expenses[2].description = <<>>
    /\ expenses[2].amount < 0

\* The file is missing, is not a parseable document, or is a parseable
\* document (an object) without the initial_budget or the expenses field.
MissingOrMalformed(f) ==
    \/ ~f.exists
    \/ ~json_load(f.text).ok
    \/ /\ json_load(f.text).v.k = "obj"
       /\ \/ ~HasKey(json_load(f.text).v, K_initial_budget)
          \/ ~HasKey(json_load(f.text).v, K_expenses)

\* C3: whenever the file is missing or malformed, load_budget_data lets no
\* error through and returns the default state, budget 0 and no expenses.
\* (Refuted: the missing field is a KeyError, which is not caught.  Until
\* the exit the file is the one the session started with, and
\* load_budget_data is the only place a KeyError or a TypeError comes
\* from.)
C3_LoadFallsBackToDefault ==
    (writes = 0 /\ pc # "start" /\ MissingOrMalformed(file)) =>
        /\ raised \notin {"KeyError", "TypeError"}
        /\ out.msg = "welcome" => budget = 0 /\ expenses = <<>>

\* C4: the file is written only by the exit (choice "6" at the main menu),
\* which stores the budget and the expenses held in memory and ends the
\* loop; every other step leaves the file as it was, and a session that has
\* exited has written it exactly once.
C4_WrittenOnceOnExit ==
    /\ [](writes = IF pc = "exited" THEN 1 ELSE 0)
    /\ [][(file' # file \/ writes' # writes \/ pc' = "exited") =>
            /\ pc = "menu"
            /\ line' = <<"6">>
            /\ pc' = "exited"
            /\ file' = save_budget_data(budget, expenses)
            /\ budget' = budget
            /\ expenses' = expenses]_vars

C4_Witness ==
    /\ pc = "exited"
    /\ writes = 1
    /\ Len(expenses) = 2
    /\ file = save_budget_data(budget, expenses)

\* The prompts of add_expense and of edit_budget_details.
AddSteps == {"add_confirm_over", "add_description", "add_amount", "add_confirm_exceed"}

EditSteps == {"edit_select", "edit_mode", "edit_description", "edit_amount"}

\* C5: in add_expense, an amount that would make balance - amount < 0 is
\* appended only after the user answered "y" to the confirmation prompt; on
\* "n" the expenses and the budget are unchanged when control returns to the
\* main menu.
C5_OverBudgetAddNeedsYes ==
    [][/\ (/\ pc \in AddSteps
           /\ Len(expenses') > Len(expenses)
           /\ get_balance(budget, expenses) - expenses'[Len(expenses')].amount < 0)
          => (pc = "add_confirm_exceed" /\ line' = L_y)
       /\ (pc = "add_amount" /\ float(line').ok
             /\ get_balance(budget, expenses) - float(line').v < 0)
          => (pc' = "add_confirm_exceed" /\ expenses' = expenses /\ budget' = budget)
       /\ (pc = "add_confirm_exceed" /\ line' = L_n)
          => (pc' = "menu" /\ expenses' = expenses /\ budget' = budget)]_vars

\* Budget 100, expenses [70]: 40 was added after the answer "y".
C5_Witness ==
    /\ pc = "menu"
    /\ out.msg = "added"
    /\ out.amount = 400
    /\ line = L_y
    /\ budget = 1000
    /\ Len(expenses) = 2
    /\ expenses[1].amount = 700

\* The balance was not negative before the step and is negative after it.
GoesOverBudget ==
    /\ get_balance(budget, expenses) >= 0
    /\ get_balance(budget', expenses') < 0

\* C6, as claimed: whenever a step of AddExpense or of EditExpense takes the
\* balance from >= 0 to < 0, the user answered "y" to a confirmation prompt
\* of that action first.  (Refuted: editing an amount asks nothing.)
C6_EveryExceedingChangeConfirmed ==
    [][(pc \in AddSteps \cup EditSteps /\ GoesOverBudget)
          => (pc = "add_confirm_exceed" /\ line' = L_y)]_vars

\* C6, amended: whenever a step of AddExpense takes the balance from >= 0 to
\* < 0, the user answered "y" to the confirmation prompt of that action
\* before the expense was appended.
C6_ExceedingAddConfirmed ==
    [][(pc \in AddSteps /\ GoesOverBudget)
          => (pc = "add_confirm_exceed" /\ line' = L_y)]_vars

\* An add has just taken the balance from >= 0 to < 0.
C6_Witness ==
    /\ pc = "menu"
    /\ out.msg = "added"
    /\ line = L_y
    /\ get_balance(budget, expenses) < 0
    /\ get_balance(budget, expenses) + out.amount >= 0

\* The step completes an add: the amount is within the budget, or the user
\* confirmed it with "y".
AddCompletes ==
    \/ /\ pc = "add_amount"
       /\ float(line').ok
       /\ get_balance(budget, expenses) - float(line').v >= 0
    \/ /\ pc = "add_confirm_exceed"
       /\ line' = L_y

EnteredAmount == IF pc = "add_amount" THEN float(line').v ELSE amount

\* C7: a completed add appends exactly one record, the entered description
\* and amount, to the end of the list: the length grows by 1, the earlier
\* records keep position and content, the budget is unchanged.  Any line is
\* taken as the description, the empty one too, and zero and negative
\* amounts are taken like any other.
C7_AddAppendsAtEnd ==
    [][/\ pc = "add_description" => (description' = line' /\ pc' = "add_amount")
       /\ AddCompletes =>
            /\ Len(expenses') = Len(expenses) + 1
            /\ \A j \in 1..Len(expenses) : expenses'[j] = expenses[j]
            /\ expenses'[Len(expenses')] = Expense(description, EnteredAmount)
            /\ out' = [msg |-> "added", description |-> description,
                       amount |-> EnteredAmount]
            /\ budget' = budget
            /\ pc' = "menu"]_vars

\* An empty description with a negative amount was appended behind a record.
C7_Witness ==
    /\ out.msg = "added"
    /\ out.description = <<>>
    /\ out.amount < 0
    /\ Len(expenses) = 2
    /\ expenses[2] = Expense(<<>>, out.amount)
    /\ expenses[1].description = L_rich

\* The line names an item of the list.
NamesItem(l, es) == int(l).ok /\ int(l).v >= 0 /\ int(l).v < Len(es)

\* after is before without its element at 0-indexed i, the rest in order.
Without(before, i, after) ==
    /\ Len(after) = Len(before) - 1
    /\ \A j \in 1..Len(after) : after[j] = before[IF j <= i THEN j ELSE j + 1]

RecA == Expense(<<"A">>, 10)
RecB == Expense(<<"B">>, 20)
RecC == Expense(<<"C">>, 30)

\* C8: delete removes exactly the selected element: the list afterwards is
\* the old one without element i, the others in their order, the report
\* names the old element i, and the budget is unchanged; deleting index 1 of
\* [A, B, C] yields [A, C].
C8_DeleteRemovesSelected ==
    /\ [](pop(<<RecA, RecB, RecC>>, 1) = <<RecA, RecC>>)
    /\ [][(pc = "delete_select" /\ NamesItem(line', expenses)) =>
            /\ Without(expenses, int(line').v, expenses')
            /\ out' = [msg |-> "deleted",
                       description |-> expenses[int(line').v + 1].description,
                       amount |-> expenses[int(line').v + 1].amount]
            /\ budget' = budget
            /\ pc' = "menu"]_vars

\* The first of two different records was deleted and the second remains.
C8_Witness ==
    /\ pc = "menu"
    /\ out.msg = "deleted"
    /\ line = <<"0">>
    /\ Len(expenses) = 1
    /\ expenses[1] # Expense(out.description, out.amount)

\* C9: select_expense never acts on an invalid index: a line that is no
\* number, is negative or is >= the number of expenses changes nothing and
\* reads again; the index it returns is in 0..length-1 and is the one the
\* user typed, so delete removes that element and edit touches no other.
C9_SelectionInRange ==
    /\ [](pc \in {"edit_mode", "edit_description", "edit_amount"}
            => choice \in 0..(Len(expenses) - 1))
    /\ [][/\ (pc \in {"delete_select", "edit_select"} /\ ~NamesItem(line', expenses))
             => /\ pc' = pc
                /\ out'.msg \in {"not_a_number", "not_an_item"}
                /\ UNCHANGED <<budget, expenses, choice, file>>
          /\ (pc = "delete_select" /\ NamesItem(line', expenses))
             => Without(expenses, int(line').v, expenses')
          /\ (pc = "edit_select" /\ NamesItem(line', expenses))
             => (choice' = int(line').v /\ expenses' = expenses /\ pc' = "edit_mode")
          /\ pc \in {"edit_mode", "edit_description", "edit_amount"}
             => /\ Len(expenses') = Len(expenses)
                /\ \A j \in 1..Len(expenses) : j # choice + 1 => expenses'[j] = expenses[j]
                /\ pc' \notin {"menu", "crashed"} => choice' = choice]_vars

\* Index 2 of a list of two was refused and the prompt is shown again.
C9_Witness ==
    /\ pc = "delete_select"
    /\ line = <<"2">>
    /\ Len(expenses) = 2
    /\ out.msg = "not_an_item"

\* C10: an edit changes one field of one record: mode "2" replaces the
\* amount of element choice and mode "1" its description; the other field,
\* every other element, the length, the order and the budget stay.
C10_EditChangesOneField ==
    [][/\ (pc = "edit_amount" /\ float(line').ok) =>
            /\ expenses' = [j \in 1..Len(expenses) |->
                               IF j = choice + 1
                               THEN Expense(expenses[j].description, float(line').v)
                               ELSE expenses[j]]
            /\ budget' = budget
            /\ pc' = "menu"
       /\ pc = "edit_description" =>
            /\ expenses' = [j \in 1..Len(expenses) |->
                               IF j = choice + 1
                               THEN Expense(line', expenses[j].amount)
                               ELSE expenses[j]]
            /\ budget' = budget
            /\ pc' = "menu"]_vars

\* The amount of the first of two records was just set to 40; its
\* description and the other record are as they were.
C10_Witness ==
    /\ pc = "menu"
    /\ out = Silent
    /\ line = <<"4", "0">>
    /\ Len(expenses) = 2
    /\ expenses[1] = Expense(L_rich, 400)
    /\ expenses[2] = Expense(<<>>, -500)

\* The lines main's menu dispatches on.
MenuChoices == {L_1, L_2, <<"3">>, <<"4">>, <<"5">>, <<"6">>}

\* C11: main-menu dispatch: "1".."5" enter the add, show, delete, edit
\* expense and edit budget actions and "6" the exit; every other line ("0",
\* "7", the empty line, text that is no number) reports an invalid choice,
\* stays in the main menu and leaves budget, expenses and file unchanged.
\* (Refuted: a line that isnumeric() accepts and int() refuses, U+00B2, ends
\* the session with a ValueError.)
C11_MenuDispatch ==
    [][pc = "menu" =>
        /\ line' = L_1 => pc' \in {"add_confirm_over", "add_description"}
        /\ line' = L_2 => (pc' = "menu" /\ out'.msg = "details")
        /\ line' = <<"3">> =>
              pc' = IF Len(expenses) = 0 THEN "menu" ELSE "delete_select"
        /\ line' = <<"4">> =>
              pc' = IF Len(expenses) = 0 THEN "menu" ELSE "edit_select"
        /\ line' = <<"5">> => pc' = "edit_budget"
        /\ line' = <<"6">> => pc' = "exited"
        /\ line' \notin MenuChoices =>
              /\ pc' = "menu"
              /\ out'.msg = "invalid_choice"
              /\ UNCHANGED <<budget, expenses, file>>]_vars

\* C12: add_expense entered with balance < 0 asks whether to continue before
\* anything else; on "n" it returns to the main menu with no description or
\* amount prompt shown and with budget and expenses unchanged.
C12_OverBudgetEntryAsksFirst ==
    [][/\ (pc = "menu" /\ line' = L_1 /\ get_balance(budget, expenses) < 0)
          => (pc' = "add_confirm_over" /\ UNCHANGED <<budget, expenses>>)
       /\ (pc = "menu" /\ line' = L_1 /\ get_balance(budget, expenses) >= 0)
          => pc' = "add_description"
       /\ pc' = "add_confirm_over"
          => (pc \in {"menu", "add_confirm_over"} /\ get_balance(budget, expenses) < 0)
       /\ (pc = "add_confirm_over" /\ line' = L_n)
          => (pc' = "menu" /\ UNCHANGED <<budget, expenses, description, amount>>)]_vars

\* Over budget, the user declined at the first prompt and is back at the menu.
C12_Witness ==
    /\ pc = "menu"
    /\ line = L_n
    /\ out = Silent
    /\ Len(expenses) = 1
    /\ get_balance(budget, expenses) < 0

\* C13: EditBudget replaces the budget by the entered number with no yes/no
\* prompt, also when the new budget is below the total spent, and leaves
\* the expenses unchanged; a line that is no number only shows the prompt
\* again with the budget as it was.
C13_EditBudgetUnconditional ==
    [][/\ (pc = "menu" /\ line' = <<"5">>)
          => (pc' = "edit_budget" /\ UNCHANGED <<budget, expenses>>)
       /\ (pc = "edit_budget" /\ float(line').ok)
          => (budget' = float(line').v /\ pc' = "menu" /\ expenses' = expenses)
       /\ (pc = "edit_budget" /\ ~float(line').ok)
          => /\ pc' = "edit_budget"
             /\ out'.msg = "not_a_number"
             /\ UNCHANGED <<budget, expenses>>]_vars

\* The budget was just set to 0 under two expenses that sum to more.
C13_Witness ==
    /\ pc = "menu"
    /\ line = <<"0", ".", "0">>
    /\ budget = 0
    /\ Len(expenses) = 2
    /\ get_total_expenses(expenses) > 0

\* C14: show_budget_details is a pure read: budget and expenses (length,
\* order, every description and amount) are unchanged, the box lists the
\* expenses as they are, and the balance is shown red exactly when it is
\* < 0 and green otherwise.
C14_ShowIsPureRead ==
    /\ [](out.msg = "details" =>
            /\ out.colour \in {RED, GREEN}
            /\ out.colour = RED <=> out.balance < 0)
    /\ [][(pc = "menu" /\ line' = L_2) =>
            /\ UNCHANGED <<budget, expenses, file, writes>>
            /\ pc' = "menu"
            /\ out'.msg = "details"
            /\ out'.budget = budget
            /\ out'.lines = expenses
            /\ out'.balance = get_balance(budget, expenses)]_vars

\* The details of two expenses over the budget were shown, balance in red.
C14_Witness ==
    /\ pc = "menu"
    /\ line = L_2
    /\ out.msg = "details"
    /\ out.colour = RED
    /\ Len(expenses) = 2
    /\ out.lines = expenses

\* The sum of the amounts at positions 1..n, counted from the last one down.
RECURSIVE SumTo(_, _)
SumTo(es, n) == IF n = 0 THEN 0 ELSE SumTo(es, n - 1) + es[n].amount

\* C15: get_total_expenses is the sum of all amounts (0 for the empty list),
\* get_balance is the budget minus that sum and may be negative (budget 100
\* with [30] gives 70, with [150] gives -50), and whatever adds, deletes and
\* edits came before, the balance shown is the budget minus the sum of the
\* amounts now in the list.
C15_DerivedValues ==
    /\ get_total_expenses(<<>>) = 0
    /\ get_total_expenses(<<Expense(<<>>, 100), Expense(<<>>, 55)>>) = 155
    /\ get_balance(1000, <<Expense(<<>>, 300)>>) = 700
    /\ get_balance(1000, <<Expense(<<>>, 1500)>>) = -500
    /\ get_total_expenses(expenses) = SumTo(expenses, Len(expenses))
    /\ get_balance(budget, expenses) = budget - SumTo(expenses, Len(expenses))
    /\ out.msg = "details" =>
         /\ out.total = SumTo(expenses, Len(expenses))
         /\ out.balance = budget - SumTo(expenses, Len(expenses))

\* With budget 100 and expenses of 70 and 40 the details show a total of
\* 110 and a balance of -10.
C15_Witness ==
    /\ out.msg = "details"
    /\ budget = 1000
    /\ Len(expenses) = 2
    /\ out.total = 1100
    /\ out.balance = -100

\* The prompts inside the actions entered from the menu.
ActionSteps == AddSteps \cup EditSteps \cup {"delete_select", "edit_budget"}

\* C16: every action entered from the menu returns to the menu: a step
\* taken at a prompt inside an action either stays inside the action (a
\* re-prompt or its next prompt) or is back at the menu, so the menu, and
\* from it the exit, stays ahead of every prompt; and the exit is entered
\* only from the menu.
C16_ActionsReturnToMenu ==
    [][/\ pc \in ActionSteps => pc' \in ActionSteps \cup {"menu"}
       /\ pc' = "exited" => pc = "menu"]_vars

\* The prompts read by ask_for_number as a float, as an int, and by yes_or_no.
FloatPrompts == {"ask_budget", "add_amount", "edit_amount", "edit_budget"}
IntPrompts == {"delete_select", "edit_select"}
YesNoPrompts == {"add_confirm_over", "add_confirm_exceed"}

\* The line read at a prompt is one the prompt rejects.
Rejected ==
    \/ pc \in FloatPrompts /\ ~float(line').ok
    \/ pc \in IntPrompts /\ ~int(line').ok
    \/ pc \in YesNoPrompts /\ line' \notin {L_y, L_n}
    \/ pc = "edit_mode" /\ line' \notin {L_1, L_2} /\ pc' # "crashed"

\* C17: a re-prompt changes nothing: when ask_for_number rejects a line that
\* is not a number, yes_or_no a line other than "y"/"n", or the edit-mode
\* prompt a line other than "1"/"2", the same prompt is shown again and the
\* budget, the expense list, the pending entry and the file are as they
\* were; so they are after any number of retries.
C17_RepromptChangesNothing ==
    [][/\ Rejected =>
            /\ pc' = pc
            /\ out'.msg \in {"not_a_number", "not_an_option"}
            /\ UNCHANGED <<budget, expenses, description, amount, choice, file, writes>>
       /\ (pc' = pc /\ pc \in FloatPrompts \cup IntPrompts \cup YesNoPrompts \cup {"edit_mode"})
            => UNCHANGED <<budget, expenses, file>>]_vars

\* The edit-mode prompt has just rejected "3" with two expenses stored.
C17_Witness ==
    /\ pc = "edit_mode"
    /\ line = <<"3">>
    /\ out.msg = "not_an_option"
    /\ Len(expenses) = 2

\* C18: with an empty expense list, choosing delete ("3") or edit ("4") at
\* the menu reports that there are no expenses and is back at the menu: no
\* selection or value prompt is shown and budget, expenses and file are
\* unchanged; the selection prompts are only ever shown with a non-empty
\* list.
C18_EmptyListDeleteEdit ==
    /\ [](pc \in {"delete_select"} \cup EditSteps => Len(expenses) > 0)
    /\ [][(pc = "menu" /\ line' \in {<<"3">>, <<"4">>} /\ Len(expenses) = 0) =>
            /\ pc' = "menu"
            /\ out'.msg = "no_expenses"
            /\ UNCHANGED <<budget, expenses, file, writes>>]_vars

\* Edit was chosen with budget 100 and no expenses, and the session is
\* back at the menu after the report.
C18_Witness ==
    /\ pc = "menu"
    /\ line = <<"4">>
    /\ out.msg = "no_expenses"
    /\ budget = 1000
    /\ expenses = <<>>

\* C19: at startup the initial budget is asked for exactly when the loaded
\* budget is 0: from the default state of a missing or corrupt file and
\* from a file that stored budget 0; a non-zero loaded budget goes to the
\* menu with the loaded budget and no prompt.  The loaded expenses are kept
\* in both cases, also across the prompt.
C19_StartupBudgetPrompt ==
    /\ [](pc = "ask_budget" => budget = 0)
    /\ [][/\ (pc = "start" /\ pc' # "crashed") =>
                /\ budget' = load_budget_data(file).budget
                /\ expenses' = load_budget_data(file).expenses
                /\ pc' = "ask_budget" <=> budget' = 0
                /\ pc' = "menu" <=> budget' # 0
          /\ (pc = "start" /\ file \in {NoFile, GarbageFile}) =>
                (pc' = "ask_budget" /\ budget' = 0 /\ expenses' = <<>>)
          /\ (pc = "start" /\ file = ZeroBudgetFile) =>
                (pc' = "ask_budget" /\ expenses' = <<Expense(<<>>, 400)>>)
          /\ (pc = "start" /\ file = HandFile) =>
                (pc' = "menu" /\ budget' = 1000 /\ expenses' = <<Expense(L_rich, 700)>>)
          /\ pc' = "ask_budget" => pc \in {"start", "ask_budget"}
          /\ pc = "ask_budget" => (expenses' = expenses /\ pc' \in {"ask_budget", "menu"})]_vars

\* A file holding budget 0 and one expense was loaded, the budget asked for
\* and entered as 100, and the menu follows with the loaded expense kept.
C19_Witness ==
    /\ pc = "menu"
    /\ file = ZeroBudgetFile
    /\ line = <<"1", "0", "0">>
    /\ budget = 1000
    /\ expenses = <<Expense(<<>>, 400)>>
    /\ writes = 0

\* The balance is below 0 while an expense is being entered, which is the
\* case exactly when the entry began with the first confirmation.
OverOnEntry == get_balance(budget, expenses) < 0

\* C20: when the balance is < 0 on entry to add_expense, the description
\* prompt is reached only by answering "y" to the first confirmation; an
\* amount that still leaves balance - amount < 0 then asks the second
\* confirmation too and the expense is appended only on a second "y"; an
\* amount negative enough to bring balance - amount to >= 0 is appended
\* at once with no second prompt.
C20_DoubleGate ==
    [][/\ (pc' = "add_description" /\ get_balance(budget', expenses') < 0)
            => (pc = "add_confirm_over" /\ line' = L_y /\ UNCHANGED <<budget, expenses>>)
       /\ (pc = "add_confirm_over" /\ line' = L_y) => pc' = "add_description"
       /\ (pc = "add_amount" /\ OverOnEntry /\ float(line').ok) =>
            IF get_balance(budget, expenses) - float(line').v < 0
            THEN /\ pc' = "add_confirm_exceed"
                 /\ amount' = float(line').v
                 /\ UNCHANGED <<budget, expenses>>
            ELSE /\ pc' = "menu"
                 /\ out'.msg = "added"
                 /\ expenses' = Append(expenses, Expense(description, float(line').v))
       /\ (pc = "add_confirm_exceed" /\ OverOnEntry) =>
            /\ expenses' # expenses <=> line' = L_y
            /\ line' = L_y => expenses' = Append(expenses, Expense(description, amount))
            /\ line' = L_n => pc' = "menu"]_vars

\* Budget 0 with 40 already spent: 70 was entered after "y" to the first
\* confirmation, and the "y" just given to the second one has appended it.
C20_Witness ==
    /\ pc = "menu"
    /\ line = L_y
    /\ out.msg = "added"
    /\ out.amount = 700
    /\ budget = 0
    /\ Len(expenses) = 2
    /\ expenses[1].amount = 400
    /\ expenses[2].amount = 700

====
